---- MODULE Spec2Model ----
(***************************************************************************)
(* State-machine model of qtbricks.filebrowser: the FileBrowser widget     *)
(* (root path, one-slot back/forward history, path line edit, buttons) and *)
(* its _FileTree view (model root, item selection); and of the helpers of  *)
(* qtbricks.utils, qtbricks.mainwindow and qtbricks.testing, each with a   *)
(* variable and a specification of its own.                                *)
(*                                                                         *)
(* A path is a Python str, modelled as a sequence of one-character         *)
(* strings: "/h/d" is <<"/", "h", "/", "d">> and "" is <<>>.  A file       *)
(* system node is the sequence of its component names: / is <<>>, /h/d is  *)
(* <<"h", "d">>.                                                           *)
(***************************************************************************)
EXTENDS Integers, Sequences, FiniteSets, TLC

VARIABLES
    root_path,        \* FileBrowser.root_path
    selection,        \* FileBrowser.selection
    previous_path,    \* FileBrowser._previous_path
    next_path,        \* FileBrowser._next_path
    edit_text,        \* text of FileBrowser._curdir_edit
    back_enabled,     \* FileBrowser._back_button.isEnabled()
    forward_enabled,  \* FileBrowser._forward_button.isEnabled()
    tree_root,        \* _FileTree._root_path
    model_root,       \* _FileTree._model.rootPath(), also the view's root index
    expanded,         \* directory nodes unfolded in the tree view
    ranges,           \* item selection model: committed rows
    current,          \* item selection model: rows of the current selection
    current_cmd,      \* item selection model: command of the current selection
    anchor,           \* view's selection start index (<<>> when invalid)
    delivered,        \* what a slot on FileBrowser.selection_changed saw
    emitted,          \* what a slot on _FileTree.root_path_changed saw
    last_op,          \* the handler that ran last
    validator,        \* a utils.IntValidator and the last text it fixed
    group,            \* a QButtonGroup of checkable buttons (plot.Plot)
    window,           \* a mainwindow.MainWindow and the QSettings it saves to
    line_edit,        \* a QLineEdit that testing.qtest_enter_text types into
    receiver          \* a testing.SignalReceiver or SignalNotReceiver and its block

\* The variables of the file browser.
browser_vars ==
    <<root_path, selection, previous_path, next_path, edit_text,
      back_enabled, forward_enabled, tree_root, model_root, expanded,
      ranges, current, current_cmd, anchor, delivered, emitted, last_op>>

\* The variables of the helpers.
helper_vars == <<validator, group, window, line_edit, receiver>>

vars == <<browser_vars, helper_vars>>

---------------------------------------------------------------------------
(* The file system the browser runs on.                                    *)

Sep == "/"

Dirs == { <<>>, <<"h">>, <<"h", "d">>, <<"h", "e">> }

Files == { <<"h", "f">>, <<"h", "d", "x">> }

\* Children of a node in the order QFileSystemModel sorts them (directories
\* before files, then by name).
Listing(n) ==
    CASE n = <<>>           -> << <<"h">> >>
      [] n = <<"h">>        -> << <<"h", "d">>, <<"h", "e">>, <<"h", "f">> >>
      [] n = <<"h", "d">>   -> << <<"h", "d", "x">> >>
      [] OTHER              -> << >>

\* os.path.expanduser("~")
Home == <<"/", "h">>

\* os.path.abspath(os.path.curdir), the process's working directory
Cwd == <<"/", "h">>

\* Constructor arguments FileBrowser(path=...); "" selects Cwd.
InitPaths == { <<>>, <<"/", "h", "/", "d">> }

\* Texts a user commits in the path line edit.
TypedTexts ==
    { <<"/">>,                              \* existing directory
      <<"/", "h", "/", "d">>,               \* existing directory
      <<"/", "h", "/">>,                    \* one trailing separator
      <<"/", "h", "/", "/", "d">>,          \* doubled separator
      <<"/", "h", "/", "f">>,               \* existing regular file
      <<"d">>,                              \* relative to Cwd
      <<"/", "n">>,                         \* no such entry
      <<>> }                                \* empty text

---------------------------------------------------------------------------
(* str and path functions used by the code.                                *)

\* str.endswith("/")
EndsWithSep(p) == Len(p) > 0 /\ p[Len(p)] = Sep

\* path[:-1]
DropLast(p) == SubSeq(p, 1, Len(p) - 1)

\* str.rstrip("/")
RECURSIVE RStripSep(_)
RStripSep(p) == IF EndsWithSep(p) THEN RStripSep(DropLast(p)) ELSE p

\* str.rfind("/") + 1
RECURSIVE RFindSepPlus1(_)
RFindSepPlus1(p) ==
    IF Len(p) = 0 THEN 0
    ELSE IF p[Len(p)] = Sep THEN Len(p)
    ELSE RFindSepPlus1(DropLast(p))

AllSep(p) == \A i \in 1..Len(p) : p[i] = Sep

\* posixpath.split(p)[0]
SplitHead(p) ==
    LET i    == RFindSepPlus1(p)
        head == SubSeq(p, 1, i)
    IN  IF head # <<>> /\ ~AllSep(head) THEN RStripSep(head) ELSE head

\* The component names of a path, empty components dropped.
RECURSIVE Components(_)
Components(p) ==
    IF p = <<>> THEN <<>>
    ELSE IF p[Len(p)] = Sep THEN Components(DropLast(p))
    ELSE LET i == RFindSepPlus1(p)
         IN  Append(Components(SubSeq(p, 1, i)), p[Len(p)])

IsAbs(p) == Len(p) > 0 /\ p[1] = Sep

\* The node a path resolves to (relative paths resolve against Cwd).
NodeOf(p) == IF IsAbs(p) THEN Components(p) ELSE Components(Cwd) \o Components(p)

\* os.path.exists(p): "" does not exist; a trailing separator needs a directory.
Exists(p) ==
    /\ p # <<>>
    /\ NodeOf(p) \in Dirs \cup Files
    /\ EndsWithSep(p) => NodeOf(p) \in Dirs

\* QFileSystemModel.filePath(index): the absolute path of a node.
RECURSIVE FilePath(_)
FilePath(n) ==
    IF n = <<>> THEN <<Sep>>
    ELSE IF Len(n) = 1 THEN <<Sep, n[1]>>
    ELSE FilePath(DropLast(n)) \o <<Sep, n[Len(n)]>>

\* Component names joined by separators, without a leading one.
RECURSIVE JoinRel(_)
JoinRel(n) ==
    IF n = <<>> THEN <<>>
    ELSE IF Len(n) = 1 THEN <<n[1]>>
    ELSE JoinRel(DropLast(n)) \o <<Sep, n[Len(n)]>>

\* QDir::cleanPath as QFileSystemModel.setRootPath applies it: repeated
\* separators collapse and trailing separators go, save for "/".
CleanPath(p) ==
    IF p = <<>> THEN <<>>
    ELSE IF IsAbs(p) THEN FilePath(Components(p))
    ELSE JoinRel(Components(p))

---------------------------------------------------------------------------
(* The widget's state as one record, so that a handler is a function from  *)
(* state to state and a nested call is a nested application.               *)

St ==
    [ root_path |-> root_path, selection |-> selection,
      previous_path |-> previous_path, next_path |-> next_path,
      edit_text |-> edit_text, back_enabled |-> back_enabled,
      forward_enabled |-> forward_enabled, tree_root |-> tree_root,
      model_root |-> model_root, expanded |-> expanded, ranges |-> ranges,
      current |-> current, current_cmd |-> current_cmd, anchor |-> anchor,
      delivered |-> delivered, emitted |-> emitted ]

\* The next state is s, reached by handler op.
Becomes(s, op) ==
    /\ root_path' = s.root_path
    /\ selection' = s.selection
    /\ previous_path' = s.previous_path
    /\ next_path' = s.next_path
    /\ edit_text' = s.edit_text
    /\ back_enabled' = s.back_enabled
    /\ forward_enabled' = s.forward_enabled
    /\ tree_root' = s.tree_root
    /\ model_root' = s.model_root
    /\ expanded' = s.expanded
    /\ ranges' = s.ranges
    /\ current' = s.current
    /\ current_cmd' = s.current_cmd
    /\ anchor' = s.anchor
    /\ delivered' = s.delivered
    /\ emitted' = s.emitted
    /\ last_op' = op
    /\ UNCHANGED helper_vars

\* A handler starts with nothing delivered to the slots on the signals yet.
Begin == [St EXCEPT !.delivered = <<>>, !.emitted = <<>>]

---------------------------------------------------------------------------
(* Root path handling: FileBrowser._change_root_path, _update_ui and the   *)
(* signal chain through _FileTree and its QFileSystemModel.  Qt delivers a *)
(* signal to its slots synchronously, so an emit is a call.                *)

RECURSIVE ChangeRootPath(_, _)

\* self.root_path_changed.emit(path): Qt runs the slots in the order of
\* their connection, FileBrowser._change_root_path (connected in
\* _connect_signals) first and then a slot connected after construction,
\* which reads the tree's and the browser's root.
EmitRootPathChanged(s, path) ==
    LET s1 == ChangeRootPath(s, path)
    IN  [s1 EXCEPT !.emitted = Append(@, [payload |-> path,
                                          tree_root |-> s1.tree_root,
                                          root_path |-> s1.root_path,
                                          changed |-> (s1 # s)])]

\* _root_path_changed emitting before it records the path
TreeRootPathChangedEmitFirst(s, path) ==
    IF path # s.tree_root
    THEN [EmitRootPathChanged(s, path) EXCEPT !.tree_root = path]
    ELSE s

\* _FileTree._root_path_changed, slot of the model's rootPathChanged; its
\* root_path_changed signal is connected to FileBrowser._change_root_path.
TreeRootPathChanged(s, path) ==
    IF path # s.tree_root
    THEN EmitRootPathChanged([s EXCEPT !.tree_root = path], path)
    ELSE s

\* QFileSystemModel.setRootPath: cleans the path, does nothing when it is the
\* current root or does not exist, else moves and emits rootPathChanged.
ModelSetRootPath(s, path) ==
    LET long == CleanPath(path)
    IN  IF s.model_root = long THEN s
        ELSE IF ~Exists(long) THEN s
        ELSE TreeRootPathChanged([s EXCEPT !.model_root = long], long)

\* set_root_path emitting root_path_changed itself, whatever the model did
TreeSetRootPathEmitting(s, path) ==
    IF path = <<>> THEN s
    ELSE EmitRootPathChanged(ModelSetRootPath(s, path), path)

\* _FileTree.set_root_path
TreeSetRootPath(s, path) ==
    IF path = <<>> THEN s ELSE ModelSetRootPath(s, path)

\* FileBrowser._update_ui
UpdateUi(s) ==
    LET s1 == [s EXCEPT !.edit_text = s.root_path]
        s2 == TreeSetRootPath(s1, s1.root_path)
    IN  [s2 EXCEPT !.back_enabled = (s2.previous_path # <<>>),
                   !.forward_enabled = (s2.next_path # <<>>)]

\* FileBrowser._change_root_path
ChangeRootPath(s, path) ==
    IF path = s.root_path THEN s
    ELSE LET p == IF EndsWithSep(path) /\ path # <<Sep>> THEN DropLast(path) ELSE path
         IN  UpdateUi([s EXCEPT !.previous_path = s.root_path, !.root_path = p])

\* _change_path without its os.path.exists test
ChangePathUnchecked(s) == ChangeRootPath(s, s.edit_text)

\* FileBrowser._change_path, slot of the line edit's editingFinished
ChangePath(s) ==
    LET new_path == s.edit_text
    IN  IF Exists(new_path) THEN ChangeRootPath(s, new_path)
        ELSE [s EXCEPT !.edit_text = s.root_path]

\* FileBrowser._move_up
MoveUp(s) == ChangeRootPath(s, SplitHead(s.root_path))

\* FileBrowser._go_home
GoHome(s) == ChangeRootPath(s, Home)

\* _go_back without saving the root in _next_path
GoBackForgetful(s) == ChangeRootPath(s, s.previous_path)

\* FileBrowser._go_back
GoBack(s) ==
    ChangeRootPath([s EXCEPT !.next_path = s.root_path], s.previous_path)

\* _go_forward without clearing _next_path
GoForwardKeeping(s) == ChangeRootPath(s, s.next_path)

\* FileBrowser._go_forward
GoForward(s) ==
    LET path == s.next_path
    IN  ChangeRootPath([s EXCEPT !.next_path = <<>>], path)

---------------------------------------------------------------------------
(* Selection: the rows the view shows, QItemSelectionModel.select, and the *)
(* overridden _FileTree.selectionCommand and _FileTree.selectionChanged.   *)
(* A row is a node; the selection model keeps its rows in list order.      *)

\* Columns of a QFileSystemModel row (name, size, type, date modified); a
\* selected row contributes one model index per column.
NumColumns == 4

\* The rows below a list of sibling nodes, an unfolded directory followed by
\* its own rows.
RECURSIVE RowsOf(_, _)
RowsOf(nodes, exp) ==
    IF nodes = <<>> THEN <<>>
    ELSE LET n == Head(nodes)
         IN  <<n>> \o (IF n \in exp THEN RowsOf(Listing(n), exp) ELSE <<>>)
                   \o RowsOf(Tail(nodes), exp)

\* The rows of the view: setRootIndex(model.index(model.rootPath())).
VisibleRows(s) == RowsOf(Listing(NodeOf(s.model_root)), s.expanded)

Elems(q) == { q[i] : i \in 1..Len(q) }

Without(q, other) == SelectSeq(q, LAMBDA n : n \notin Elems(other))

\* QItemSelection.merge for the commands Select and Deselect.
Merged(base, other, cmd) ==
    IF other = <<>> THEN base
    ELSE IF cmd = "Select" THEN Without(base, other) \o other
    ELSE Without(base, other)

\* QItemSelectionModel.selection(): committed ranges merged with the current one.
SelectedRows(s) == Merged(s.ranges, s.current, s.current_cmd)

\* QTreeView.selectedIndexes(): one index <<node, column>> per column of
\* each selected row.
RECURSIVE IndexesOf(_)
IndexesOf(rows) ==
    IF rows = <<>> THEN <<>>
    ELSE [c \in 1..NumColumns |-> <<Head(rows), c>>] \o IndexesOf(Tail(rows))

SelectedIndexes(s) == IndexesOf(SelectedRows(s))

\* FileBrowser._change_selection: emits selection_changed, whose slot reads
\* the selection attribute, and then assigns the attribute.
ChangeSelection(s, sel) ==
    [s EXCEPT !.delivered = Append(@, [payload |-> sel, attribute |-> s.selection]),
              !.selection = sel]

\* The loop of selectionChanged without its membership test
RECURSIVE CollectPathsAll(_, _)
CollectPathsAll(indexes, selected_rows) ==
    IF indexes = <<>> THEN selected_rows
    ELSE CollectPathsAll(Tail(indexes),
                         Append(selected_rows, FilePath(Head(indexes)[1])))

\* The loop of _FileTree.selectionChanged over the selected indexes.
RECURSIVE CollectPaths(_, _)
CollectPaths(indexes, selected_rows) ==
    IF indexes = <<>> THEN selected_rows
    ELSE LET item == FilePath(Head(indexes)[1])
         IN  CollectPaths(Tail(indexes),
                          IF item \notin Elems(selected_rows)
                          THEN Append(selected_rows, item)
                          ELSE selected_rows)

\* _FileTree.selectionChanged; its selection_changed signal is connected to
\* FileBrowser._change_selection.
TreeSelectionChanged(s) ==
    ChangeSelection(s, CollectPaths(SelectedIndexes(s), <<>>))

\* selectionCommand without its test for directories
SelectionCommandOfBase(node, mod) ==
    IF mod = "shift" THEN "SelectCurrent"
    ELSE IF mod = "ctrl" THEN "Toggle"
    ELSE "ClearAndSelect"

\* _FileTree.selectionCommand for a click with modifier mod; the base class
\* (ExtendedSelection) answers for items that are no directories.
SelectionCommand(node, mod) ==
    IF node \in Dirs THEN "Deselect"
    ELSE IF mod = "shift" THEN "SelectCurrent"
    ELSE IF mod = "ctrl" THEN "Toggle"
    ELSE "ClearAndSelect"

\* QItemSelectionModel.select(rows, flags): clear, commit the current
\* selection unless the command continues it, install the new one, and
\* notify the view when the set of selected rows changed.
SelectRows(s, rows, clear, keep_current, cmd) ==
    LET old == SelectedRows(s)
        s1  == IF clear THEN [s EXCEPT !.ranges = <<>>, !.current = <<>>] ELSE s
        s2  == IF keep_current THEN s1
               ELSE [s1 EXCEPT !.ranges = SelectedRows(s1), !.current = <<>>]
        s3  == [s2 EXCEPT !.current = rows, !.current_cmd = cmd]
    IN  IF Elems(SelectedRows(s3)) # Elems(old) THEN TreeSelectionChanged(s3) ELSE s3

\* Position of a node among the rows, 1 (the top row) when it is not shown.
RowOf(rows, n) ==
    IF \E i \in 1..Len(rows) : rows[i] = n
    THEN CHOOSE i \in 1..Len(rows) : rows[i] = n
    ELSE 1

\* QAbstractItemView.mousePressEvent on row i of the view: a command
\* without the Current flag restarts the range at the pressed item; a
\* command with it selects every row from the range's start to the pressed
\* item (QTreeView.setSelection).
MousePress(s, i, mod) ==
    LET rows == VisibleRows(s)
        node == rows[i]
        cmd  == SelectionCommand(node, mod)
        from == IF s.anchor = <<>> THEN 1 ELSE RowOf(rows, s.anchor[1])
        lo   == IF from < i THEN from ELSE i
        hi   == IF from < i THEN i ELSE from
    IN  CASE cmd = "Deselect" ->
               SelectRows([s EXCEPT !.anchor = <<node>>], <<node>>, FALSE, FALSE, "Deselect")
          [] cmd = "ClearAndSelect" ->
               SelectRows([s EXCEPT !.anchor = <<node>>], <<node>>, TRUE, FALSE, "Select")
          [] cmd = "Toggle" ->
               SelectRows([s EXCEPT !.anchor = <<node>>], <<node>>, FALSE, FALSE,
                          IF node \in Elems(SelectedRows(s)) THEN "Deselect" ELSE "Select")
          [] OTHER ->
               SelectRows([s EXCEPT !.anchor = IF @ = <<>> THEN <<node>> ELSE @],
                          SubSeq(rows, lo, hi), FALSE, TRUE, "Select")

\* _double_clicked without its isDir test
DoubleClickedAny(s, node) == TreeSetRootPath(s, FilePath(node))

\* _FileTree._double_clicked, slot of the view's doubleClicked
DoubleClicked(s, node) ==
    IF node \in Dirs THEN TreeSetRootPath(s, FilePath(node)) ELSE s

\* FileBrowser.__init__ and _FileTree.__init__ for FileBrowser(path): the tree
\* sets the model's root before FileBrowser connects to the tree's signals.
Constructed(path) ==
    LET root  == IF path # <<>> THEN path ELSE Cwd
        long  == CleanPath(root)
        moved == long # <<".">> /\ Exists(long)
    IN  [ root_path |-> root, selection |-> <<>>,
          previous_path |-> <<>>, next_path |-> <<>>,
          edit_text |-> root, back_enabled |-> FALSE,
          forward_enabled |-> FALSE,
          tree_root |-> IF moved THEN long ELSE root,
          model_root |-> IF moved THEN long ELSE <<".">>,
          expanded |-> {}, ranges |-> <<>>, current |-> <<>>,
          current_cmd |-> "Select", anchor |-> <<>>, delivered |-> <<>>,
          emitted |-> <<>> ]

---------------------------------------------------------------------------
(* qtbricks.utils: IntValidator.fixup.  A text is a sequence of             *)
(* one-character strings, as a path is.                                    *)

Digits == <<"0", "1", "2", "3", "4", "5", "6", "7", "8", "9">>

DigitValue(c) == (CHOOSE k \in 1..10 : Digits[k] = c) - 1

\* The value of a text of digits, leading zeros allowed.
RECURSIVE DigitsValue(_)
DigitsValue(t) ==
    IF t = <<>> THEN 0
    ELSE 10 * DigitsValue(DropLast(t)) + DigitValue(t[Len(t)])

\* int(value) for a text of digits with an optional sign
ParseInt(t) ==
    IF t[1] = "-" THEN 0 - DigitsValue(Tail(t))
    ELSE IF t[1] = "+" THEN DigitsValue(Tail(t))
    ELSE DigitsValue(t)

\* str(n)
RECURSIVE Str(_)
Str(n) ==
    IF n < 0 THEN <<"-">> \o Str(0 - n)
    ELSE IF n < 10 THEN <<Digits[n + 1]>>
    ELSE Str(n \div 10) \o <<Digits[(n % 10) + 1]>>

\* Bounds a validator is given, IntValidator(0, 42) among them.
Limits == {-5, 0, 42}

\* Texts a validator is asked to fix.
FixupTexts ==
    { <<"-", "1", "2">>, <<"-", "5">>, <<"0">>, <<"0", "7">>, <<"+", "5">>,
      <<"4", "2">>, <<"4", "7">>, <<"1", "0", "0">> }

\* fixup with the test against top only
FixupTopOnly(value, bottom, top) ==
    IF ParseInt(value) > top THEN Str(top) ELSE value

\* IntValidator.fixup(value) of a validator with the given bottom and top
Fixup(value, bottom, top) ==
    LET v1 == IF ParseInt(value) > top THEN Str(top) ELSE value
    IN  IF ParseInt(v1) < bottom THEN Str(bottom) ELSE v1

\* IntValidator(bottom, top), nothing fixed yet
NewValidator(bottom, top) ==
    [bottom |-> bottom, top |-> top, value |-> <<>>, result |-> <<>>]

---------------------------------------------------------------------------
(* qtbricks.utils: make_buttons_in_group_uncheckable, on the group of      *)
(* checkable buttons plot.Plot builds.  QAbstractButton and QButtonGroup   *)
(* keep: the checked buttons, the group's exclusive flag, the group's      *)
(* checked button, and the button that is held down.                       *)

Buttons == {"pan", "zoom", "crosshair"}

\* QButtonGroup() with its buttons added, none checked; a group is
\* exclusive by default.
NewGroup ==
    [checked |-> {}, exclusive |-> TRUE, checked_button |-> "none",
     down |-> "none", clicked |-> "none"]

\* QButtonGroupPrivate::detectCheckedButton
DetectCheckedButton(g) ==
    IF g.exclusive THEN [g EXCEPT !.checked_button = "none"]
    ELSE LET others == g.checked \ {g.checked_button}
         IN  [g EXCEPT !.checked_button =
                  IF others = {} THEN "none" ELSE CHOOSE b \in others : TRUE]

\* QAbstractButton::setChecked(on) of button b; a button checked in an
\* exclusive group has the group's previous checked button unchecked
\* (notifyChecked).
RECURSIVE SetChecked(_, _, _)
SetChecked(g, b, on) ==
    IF (b \in g.checked) = on THEN g
    ELSE IF ~on /\ g.checked_button = b /\ g.exclusive THEN g
    ELSE LET g1 == IF ~on /\ g.checked_button = b THEN DetectCheckedButton(g) ELSE g
             g2 == [g1 EXCEPT !.checked = IF on THEN @ \cup {b} ELSE @ \ {b}]
             previous == g2.checked_button
             g3 == [g2 EXCEPT !.checked_button = b]
         IN  IF ~on THEN g2
             ELSE IF g3.exclusive /\ previous # "none" /\ previous # b
                  THEN SetChecked(g3, previous, previous \notin g3.checked)
                  ELSE g3

\* A press that reaches no slot on buttonPressed
GroupPressPlain(g, b) == [g EXCEPT !.down = b]

\* Button b is pressed: buttonPressed runs the first lambda,
\* setExclusive(not button.isChecked()).
GroupPress(g, b) ==
    [g EXCEPT !.down = b, !.exclusive = (b \notin g.checked)]

\* A release that reaches no slot on buttonClicked
GroupClickPlain(g, b) ==
    LET change == ~(b \in g.checked /\ g.checked_button = b /\ g.exclusive)
    IN  [(IF change THEN SetChecked(g, b, b \notin g.checked) ELSE g)
           EXCEPT !.down = "none", !.clicked = b]

\* Button b is released over itself (QAbstractButtonPrivate::click): the
\* check state changes unless b is the checked button of an exclusive
\* group, then buttonClicked runs the second lambda, setExclusive(True).
GroupClick(g, b) ==
    LET change == ~(b \in g.checked /\ g.checked_button = b /\ g.exclusive)
        g1     == IF change THEN SetChecked(g, b, b \notin g.checked) ELSE g
    IN  [g1 EXCEPT !.down = "none", !.clicked = b, !.exclusive = TRUE]

---------------------------------------------------------------------------
(* qtbricks.mainwindow: MainWindow.closeEvent and _add_dock_window.        *)

\* Dock windows an application creates (GeneralDockWindow objects).
Docks == {"dock1", "dock2"}

\* Qt.LeftDockWidgetArea, Qt.RightDockWidgetArea
Areas == {"left", "right"}

\* Titles passed to _add_dock_window; "" is the default.
Titles == {"", "general 1"}

\* What saveGeometry() can return.
Geometries == {"small", "large"}

\* Methods a GeneralDockWindow has that set one of its texts: those of
\* QDockWidget and QWidget, the class adds none but __init__.
DockWindowMethods == {"setWindowTitle", "setObjectName"}

\* MainWindow() shown, nothing docked, nothing in the settings yet.
NewWindow ==
    [geometry |-> "small", open |-> TRUE, accepted |-> TRUE,
     settings |-> [geometry |-> "unset", state |-> [d \in Docks |-> "unset"]],
     docked |-> [d \in Docks |-> "none"],
     titles |-> [d \in Docks |-> "General dock window"],
     view_menu |-> {}, returned |-> "none", raised |-> "none"]

\* closeEvent saving whatever _ok_to_continue answers
CloseEventSaving(w, ok) ==
    [w EXCEPT !.settings = [geometry |-> w.geometry, state |-> w.docked],
              !.accepted = ok, !.open = ~ok]

\* MainWindow.closeEvent(event) with ok the answer of _ok_to_continue(); a
\* close event arrives accepted, and an accepted one hides the window.
CloseEvent(w, ok) ==
    IF ok
    THEN [w EXCEPT !.settings = [geometry |-> w.geometry, state |-> w.docked],
                   !.accepted = TRUE, !.open = FALSE]
    ELSE [w EXCEPT !.accepted = FALSE]

\* MainWindow._add_dock_window(dock_window, title, area); a call of a
\* method the dock window does not have raises AttributeError and ends the
\* function.
AddDockWindow(w, d, title, area) ==
    LET w0 == [w EXCEPT !.returned = "none", !.raised = "none"]
    IN  IF title # "" /\ "setTitle" \notin DockWindowMethods
        THEN [w0 EXCEPT !.raised = "AttributeError"]
        ELSE [w0 EXCEPT !.titles[d] = IF title # "" THEN title ELSE @,
                        !.docked[d] = area,
                        !.view_menu = @ \cup {d},
                        !.returned = d]

---------------------------------------------------------------------------
(* qtbricks.testing: qtest_enter_text on a QLineEdit.  The line edit keeps *)
(* its text and, for the call that ran last, the signals it emitted, each  *)
(* with the text the edit held then.                                       *)

\* Texts a test sets or enters.
EnterTexts == { <<>>, <<"a">>, <<"a", "b">>, <<"b", "a">> }

\* QLineEdit()
NewLineEdit == [text |-> <<>>, log |-> <<>>]

Signalled(le, signal) ==
    [le EXCEPT !.log = Append(@, [signal |-> signal, text |-> le.text])]

\* QLineEdit.setText(t): the cursor goes to the end
SetLineEditText(le, t) ==
    IF le.text = t THEN le ELSE Signalled([le EXCEPT !.text = t], "textChanged")

\* QLineEdit.clear()
ClearLineEdit(le) == SetLineEditText(le, <<>>)

\* QTest.keyClicks(widget, text): each key inserts its character at the
\* cursor, which is at the end.
RECURSIVE KeyClicks(_, _)
KeyClicks(le, text) ==
    IF text = <<>> THEN le
    ELSE KeyClicks(Signalled([le EXCEPT !.text = Append(@, Head(text))], "textChanged"),
                   Tail(text))

\* QTest.keyPress(widget, Key_Return)
KeyPressReturn(le) == Signalled(Signalled(le, "returnPressed"), "editingFinished")

\* qtest_enter_text without its widget.clear()
EnterTextUncleared(le, text) ==
    KeyPressReturn(KeyClicks([le EXCEPT !.log = <<>>], text))

\* qtest_enter_text(widget, text)
EnterText(le, text) ==
    KeyPressReturn(KeyClicks(ClearLineEdit([le EXCEPT !.log = <<>>]), text))

---------------------------------------------------------------------------
(* qtbricks.testing: SignalReceiver and SignalNotReceiver, the context     *)
(* managers behind assertSignalReceived and assertSignalNotReceived.  The  *)
(* arguments of an emission are a tuple; seen collects the tuples emitted  *)
(* inside the block.                                                       *)

\* Arguments a signal carries, "None" for the expected arguments of a
\* signal that carries none (as test_aboutdialog passes it).
SignalArgs == {"a", "b"}

\* No block entered yet.  actual_args starts as None, which the code only
\* tests for truth, as it does the empty tuple: both are <<>> here.
NoReceiver ==
    [kind |-> "none", arity |-> 0, expected_args |-> <<"None">>,
     called |-> FALSE, actual_args |-> <<>>, seen |-> {},
     phase |-> "idle", outcome |-> "none"]

\* assertSignalReceived(signal, args): SignalReceiver(test, signal, args)
\* keeps expected_args = (args,); __enter__ connects the slot.
EnterReceiver(arity, args) ==
    [NoReceiver EXCEPT !.kind = "received", !.arity = arity,
                       !.expected_args = <<args>>, !.phase = "inside"]

\* assertSignalNotReceived(signal)
EnterNotReceiver(arity) ==
    [NoReceiver EXCEPT !.kind = "not_received", !.arity = arity, !.phase = "inside"]

\* SignalReceiver.slot(*args), SignalNotReceiver.slot()
Slot(r, args) ==
    IF r.kind = "received"
    THEN [r EXCEPT !.actual_args = args, !.called = TRUE, !.seen = @ \cup {args}]
    ELSE [r EXCEPT !.called = TRUE, !.seen = @ \cup {args}]

\* SignalReceiver.__exit__ and SignalNotReceiver.__exit__ of a block that
\* raised nothing: the assertions pass or fail.
ExitBlock(r) ==
    LET passes ==
          IF r.kind = "received"
          THEN /\ r.called
               /\ r.actual_args # <<>> => r.expected_args = r.actual_args
          ELSE ~r.called
    IN  [r EXCEPT !.phase = "done", !.outcome = IF passes THEN "pass" ELSE "fail"]

---------------------------------------------------------------------------
(* Actions.                                                                *)

\* The helpers as constructed, before anything was done with them.
HelpersIdle ==
    /\ validator = NewValidator(0, 42)
    /\ group = NewGroup
    /\ window = NewWindow
    /\ line_edit = NewLineEdit
    /\ receiver = NoReceiver

BrowserInit(path) ==
    /\ root_path = Constructed(path).root_path
    /\ selection = Constructed(path).selection
    /\ previous_path = Constructed(path).previous_path
    /\ next_path = Constructed(path).next_path
    /\ edit_text = Constructed(path).edit_text
    /\ back_enabled = Constructed(path).back_enabled
    /\ forward_enabled = Constructed(path).forward_enabled
    /\ tree_root = Constructed(path).tree_root
    /\ model_root = Constructed(path).model_root
    /\ expanded = Constructed(path).expanded
    /\ ranges = Constructed(path).ranges
    /\ current = Constructed(path).current
    /\ current_cmd = Constructed(path).current_cmd
    /\ anchor = Constructed(path).anchor
    /\ delivered = Constructed(path).delivered
    /\ emitted = Constructed(path).emitted
    /\ last_op = "init"

Init == \E path \in InitPaths : BrowserInit(path) /\ HelpersIdle

\* The user commits text t in the path line edit (editingFinished).
CommitTextOf(t) ==
    Becomes(ChangePath([Begin EXCEPT !.edit_text = t]),
            IF Exists(t) THEN "change_path_accept" ELSE "change_path_refuse")

CommitText == \E t \in TypedTexts : CommitTextOf(t)

\* The buttons emit pressed only while enabled; _update_ui never disables the
\* up and home buttons.
PressUp == Becomes(MoveUp(Begin), "move_up")

PressHome == Becomes(GoHome(Begin), "go_home")

PressBack == back_enabled /\ Becomes(GoBack(Begin), "go_back")

PressForward == forward_enabled /\ Becomes(GoForward(Begin), "go_forward")

\* Direct calls of the handlers, as a test or a subclass makes them.
CallGoBack == Becomes(GoBack(Begin), "go_back")

CallGoForward == Becomes(GoForward(Begin), "go_forward")

\* A click on a row of the tree, bare or with Ctrl or Shift held.
ClickOf(i, mod) == Becomes(MousePress(Begin, i, mod), "click")

Click ==
    \E i \in 1..Len(VisibleRows(St)), mod \in {"none", "ctrl", "shift"} :
        ClickOf(i, mod)

\* A double click on a row: the press of a bare click, then doubleClicked.
DoubleClickOf(i) ==
    Becomes(DoubleClicked(MousePress(Begin, i, "none"), VisibleRows(St)[i]),
            "double_clicked")

DoubleClick == \E i \in 1..Len(VisibleRows(St)) : DoubleClickOf(i)

\* The user unfolds or folds a directory row by its branch indicator; this
\* touches neither the selection nor any path.
Expand ==
    \E i \in 1..Len(VisibleRows(St)) :
        LET n == VisibleRows(St)[i]
        IN  /\ n \in Dirs /\ Listing(n) # <<>> /\ n \notin expanded
            /\ Becomes([Begin EXCEPT !.expanded = @ \cup {n}], "expand")

Collapse ==
    \E i \in 1..Len(VisibleRows(St)) :
        LET n == VisibleRows(St)[i]
        IN  /\ n \in expanded
            /\ Becomes([Begin EXCEPT !.expanded = @ \ {n}], "collapse")

\* Operations on the controls above the tree, and those of the tree that
\* change the root.
NavNext ==
    \/ CommitText
    \/ PressUp
    \/ PressHome
    \/ PressBack
    \/ PressForward
    \/ CallGoBack
    \/ CallGoForward
    \/ DoubleClick
    \/ Expand
    \/ Collapse

\* Operations on the tree.
TreeNext ==
    \/ Click
    \/ DoubleClick
    \/ Expand
    \/ Collapse

Next == NavNext \/ TreeNext

\* The widget as a whole.
Spec == Init /\ [][Next]_vars

\* The widget driven through its controls; Click, left out, writes only the
\* selection, which no handler of NavNext reads.
SpecNav == Init /\ [][NavNext]_vars

\* The widget driven through its tree only.
SpecTree == Init /\ [][TreeNext]_vars

---------------------------------------------------------------------------
(* qtbricks.utils: a validator and a button group in use.                  *)

InitUtils ==
    /\ BrowserInit(<<>>)
    /\ \E b, t \in Limits : validator = NewValidator(b, t)
    /\ group = NewGroup
    /\ window = NewWindow
    /\ line_edit = NewLineEdit
    /\ receiver = NoReceiver

\* QIntValidator.setRange(bottom, top)
SetRange ==
    /\ \E b, t \in Limits : validator' = [validator EXCEPT !.bottom = b, !.top = t]
    /\ UNCHANGED <<browser_vars, group, window, line_edit, receiver>>

\* The validator is asked to fix a text.
FixupText ==
    /\ \E v \in FixupTexts :
          validator' = [validator EXCEPT
                          !.value = v,
                          !.result = Fixup(v, validator.bottom, validator.top)]
    /\ UNCHANGED <<browser_vars, group, window, line_edit, receiver>>

\* The user presses the mouse button over a button of the group.
PressButton ==
    /\ group.down = "none"
    /\ \E b \in Buttons : group' = GroupPress(group, b)
    /\ UNCHANGED <<browser_vars, validator, window, line_edit, receiver>>

\* The user releases the mouse button over the button held down.
ReleaseButton ==
    /\ group.down # "none"
    /\ group' = GroupClick(group, group.down)
    /\ UNCHANGED <<browser_vars, validator, window, line_edit, receiver>>

UtilsNext == SetRange \/ FixupText \/ PressButton \/ ReleaseButton

SpecUtils == InitUtils /\ [][UtilsNext]_vars

---------------------------------------------------------------------------
(* qtbricks.mainwindow: a main window in use.                              *)

InitMain ==
    /\ BrowserInit(<<>>)
    /\ validator = NewValidator(0, 42)
    /\ group = NewGroup
    /\ window = NewWindow
    /\ line_edit = NewLineEdit
    /\ receiver = NoReceiver

\* The user resizes the window.
ResizeWindow ==
    /\ window.open
    /\ \E g \in Geometries : window' = [window EXCEPT !.geometry = g]
    /\ UNCHANGED <<browser_vars, validator, group, line_edit, receiver>>

\* The user closes the window (or File > Quit calls close()); a subclass
\* decides in _ok_to_continue, the default answers True.
CloseWindow ==
    /\ window.open
    /\ \E ok \in BOOLEAN : window' = CloseEvent(window, ok)
    /\ UNCHANGED <<browser_vars, validator, group, line_edit, receiver>>

\* The application is started again and shows its window.
ShowWindow ==
    /\ ~window.open
    /\ window' = [window EXCEPT !.open = TRUE]
    /\ UNCHANGED <<browser_vars, validator, group, line_edit, receiver>>

\* The application adds a dock window (_create_dock_windows).
DockWindow ==
    /\ \E d \in Docks, title \in Titles, area \in Areas :
          window' = AddDockWindow(window, d, title, area)
    /\ UNCHANGED <<browser_vars, validator, group, line_edit, receiver>>

MainNext == ResizeWindow \/ CloseWindow \/ ShowWindow \/ DockWindow

SpecMain == InitMain /\ [][MainNext]_vars

---------------------------------------------------------------------------
(* qtbricks.testing: the helpers in a test.                                *)

InitTesting ==
    /\ BrowserInit(<<>>)
    /\ validator = NewValidator(0, 42)
    /\ group = NewGroup
    /\ window = NewWindow
    /\ line_edit = NewLineEdit
    /\ receiver = NoReceiver

\* The test sets the widget's text.
SetText ==
    /\ \E t \in EnterTexts : line_edit' = SetLineEditText([line_edit EXCEPT !.log = <<>>], t)
    /\ UNCHANGED <<browser_vars, validator, group, window, receiver>>

\* The test calls qtest_enter_text.
EnterTextInWidget ==
    /\ \E t \in EnterTexts : line_edit' = EnterText(line_edit, t)
    /\ UNCHANGED <<browser_vars, validator, group, window, receiver>>

\* The test enters a block under assertSignalReceived, for a signal without
\* arguments or with one.
EnterReceivedBlock ==
    /\ receiver.phase # "inside"
    /\ \/ receiver' = EnterReceiver(0, "None")
       \/ \E args \in SignalArgs : receiver' = EnterReceiver(1, args)
    /\ UNCHANGED <<browser_vars, validator, group, window, line_edit>>

\* The test enters a block under assertSignalNotReceived.
EnterNotReceivedBlock ==
    /\ receiver.phase # "inside"
    /\ \E arity \in {0, 1} : receiver' = EnterNotReceiver(arity)
    /\ UNCHANGED <<browser_vars, validator, group, window, line_edit>>

\* The signal is emitted inside the block.
EmitSignal ==
    /\ receiver.phase = "inside"
    /\ \/ receiver.arity = 0 /\ receiver' = Slot(receiver, <<>>)
       \/ receiver.arity = 1 /\ \E a \in SignalArgs : receiver' = Slot(receiver, <<a>>)
    /\ UNCHANGED <<browser_vars, validator, group, window, line_edit>>

\* The block ends.
LeaveBlock ==
    /\ receiver.phase = "inside"
    /\ receiver' = ExitBlock(receiver)
    /\ UNCHANGED <<browser_vars, validator, group, window, line_edit>>

TestingNext ==
    \/ SetText
    \/ EnterTextInWidget
    \/ EnterReceivedBlock
    \/ EnterNotReceivedBlock
    \/ EmitSignal
    \/ LeaveBlock

SpecTesting == InitTesting /\ [][TestingNext]_vars

---------------------------------------------------------------------------
(* Properties.                                                             *)

\* C1: root_path is never the empty string, whatever browser operations
\* follow construction.
C1_RootPathNeverEmpty == root_path # <<>>

\* C2: _go_back() called while _previous_path is empty leaves root_path,
\* _previous_path and _next_path unchanged.
C2_GoBackOnEmptyHistoryIsNoOp ==
    [][(previous_path = <<>> /\ CallGoBack)
        => UNCHANGED <<root_path, previous_path, next_path>>]_vars

\* C3: _go_forward() called while _next_path is empty leaves root_path,
\* _previous_path and _next_path unchanged.
C3_GoForwardOnEmptySlotIsNoOp ==
    [][(next_path = <<>> /\ CallGoForward)
        => UNCHANGED <<root_path, previous_path, next_path>>]_vars

\* C4: every operation whose call of _change_root_path changes root_path
\* leaves in _previous_path the root_path held before the call.
C4_PreviousIsRootBeforeCall ==
    [][root_path' # root_path => previous_path' = root_path]_vars

C6_NonexistentTextIsRefused ==
    [][\A t \in {u \in TypedTexts : ~Exists(u)} :
         CommitTextOf(t)
         => /\ UNCHANGED <<root_path, previous_path, next_path>>
            /\ edit_text' = root_path']_vars

\* C6 witness: a text naming no existing path was committed after the root
\* had moved, and the line edit shows the root again.
C6_Witness ==
    /\ last_op = "change_path_refuse"
    /\ previous_path # <<>>
    /\ edit_text = root_path

\* The path names an existing directory.
IsDirPath(p) == Exists(p) /\ NodeOf(p) \in Dirs

\* C7: a committed text becomes the root only if it names an existing
\* directory.
C7_TextRootIsDirectory ==
    [][\A t \in TypedTexts :
         (CommitTextOf(t) /\ root_path' # root_path) => IsDirPath(root_path')]_vars

\* C8: the selection never holds a path of a directory.
C8_NoDirectorySelected ==
    \A i \in 1..Len(selection) : NodeOf(selection[i]) \notin Dirs

IsProperPrefix(a, b) == Len(a) < Len(b) /\ SubSeq(b, 1, Len(a)) = a

\* C9: every selected path lies beneath root_path.
C9_SelectionBeneathRoot ==
    \A i \in 1..Len(selection) :
        Exists(root_path) /\ IsProperPrefix(NodeOf(root_path), NodeOf(selection[i]))

\* C10: a slot of selection_changed that reads FileBrowser.selection finds
\* the signal's payload there.
C10_AttributeSetBeforeEmit ==
    \A i \in 1..Len(delivered) : delivered[i].attribute = delivered[i].payload

\* C11: a slot connected to _FileTree.root_path_changed after construction
\* finds the payload both in the tree's recorded root and in
\* FileBrowser.root_path.
C11_StateReflectsPayload ==
    \A i \in 1..Len(emitted) :
        /\ emitted[i].tree_root = emitted[i].payload
        /\ emitted[i].root_path = emitted[i].payload

\* C11 witness: a committed text moved the root and the notification of
\* it was delivered.
C11_Witness ==
    /\ last_op = "change_path_accept"
    /\ Len(emitted) = 1
    /\ emitted[1].payload = root_path
    /\ previous_path # <<>>

\* C12: an operation emits root_path_changed at most once, and only when
\* it leaves root_path and the tree's root different from what they were.
C12_EmittedOnlyOnChange ==
    [][/\ Len(emitted') <= 1
       /\ emitted' # <<>> => (root_path' # root_path /\ tree_root' # tree_root)]_vars

\* C12 witness: the text of the root with one separator appended was
\* committed and nothing was emitted.
C12_Witness ==
    /\ last_op = "change_path_accept"
    /\ previous_path = root_path
    /\ emitted = <<>>

\* C13: _previous_path is empty or differs from root_path.
C13_PreviousDistinctFromRoot ==
    previous_path = <<>> \/ previous_path # root_path

\* C14: _go_back leaves in _next_path the root held before the call,
\* _go_forward leaves it empty, and text entry, up, home, double click,
\* unfolding and folding leave it as it was.
C14_NextPathWrittenByBackAndForward ==
    [][/\ last_op' = "go_back" => next_path' = root_path
       /\ last_op' = "go_forward" => next_path' = <<>>
       /\ last_op' \notin {"go_back", "go_forward"} => next_path' = next_path]_vars

\* C14 witness: _go_forward has consumed the root that _go_back had saved.
C14_Witness ==
    /\ last_op = "go_forward"
    /\ next_path = <<>>
    /\ Exists(root_path)
    /\ Exists(previous_path)
    /\ previous_path # root_path
    /\ Len(emitted) = 1

\* C15: a double click on a directory row makes that directory's path the
\* root_path, leaves the former root in _previous_path and leaves the
\* directory out of the selection; a double click on another row leaves
\* root_path as it was.
C15_DoubleClickEntersDirectory ==
    \A rows \in {VisibleRows(St)} : \A i \in 1..Len(rows) :
        \A s \in {DoubleClicked(MousePress(Begin, i, "none"), rows[i])} :
            IF rows[i] \in Dirs
            THEN /\ s.root_path = FilePath(rows[i])
                 /\ s.previous_path = root_path
                 /\ FilePath(rows[i]) \notin Elems(s.selection)
            ELSE s.root_path = root_path

\* C15 witness: a double click on the row of /h/d moved the root there from
\* /h.
C15_Witness ==
    /\ last_op = "double_clicked"
    /\ root_path = <<"/", "h", "/", "d">>
    /\ previous_path = <<"/", "h">>
    /\ Len(emitted) = 1

\* C16: _move_up at the file-system root changes no path field; elsewhere
\* it makes the parent directory of root_path the root and leaves the
\* former root in _previous_path.
C16_MoveUpGoesToParent ==
    [][(PressUp /\ Exists(root_path))
        => IF NodeOf(root_path) = <<>>
           THEN UNCHANGED <<root_path, previous_path, next_path>>
           ELSE /\ Exists(root_path')
                /\ NodeOf(root_path') = DropLast(NodeOf(root_path))
                /\ previous_path' = root_path]_vars

\* C17: after every operation the path line edit shows root_path and the
\* tree view is rooted at the directory root_path names.
C17_EditAndTreeInSync ==
    /\ edit_text = root_path
    /\ Exists(root_path)
    /\ NodeOf(model_root) = NodeOf(root_path)

\* C18: the back button is enabled exactly when _previous_path is not
\* empty and the forward button exactly when _next_path is not empty.
C18_ButtonsFollowHistory ==
    /\ back_enabled = (previous_path # <<>>)
    /\ forward_enabled = (next_path # <<>>)

\* The sequence holds no element twice.
NoDuplicates(q) == \A i, j \in 1..Len(q) : q[i] = q[j] => i = j

\* C19: the list _FileTree.selectionChanged emits and FileBrowser.selection
\* hold each path of the selected indexes once, in the order of its first
\* index.
C19_SelectionHasNoDuplicates ==
    /\ NoDuplicates(selection)
    /\ \A i \in 1..Len(delivered) :
          /\ NoDuplicates(delivered[i].payload)
          /\ i = Len(delivered) =>
                /\ selection = delivered[i].payload
                /\ selection = [k \in 1..Len(SelectedRows(St)) |->
                                   FilePath(SelectedRows(St)[k])]

\* C19 witness: two files are selected, four indexes each.
C19_Witness ==
    /\ last_op = "click"
    /\ Len(selection) = 2
    /\ Len(SelectedIndexes(St)) = 2 * NumColumns
    /\ delivered # <<>>

\* Position of an element in a sequence that holds it.
IndexIn(q, e) == CHOOSE i \in 1..Len(q) : q[i] = e

\* The paths of files in a list of paths, in the list's order.
FilesOf(q) == SelectSeq(q, LAMBDA p : NodeOf(p) \in Files)

\* C20: the selection lists its files in the order they entered it: a file
\* that stays selected through an operation keeps its place relative to the
\* others that stay, and a file that enters comes after those that stay.
C20_SelectionInOrderOfEntry ==
    [][\A old \in {FilesOf(selection)} : \A new \in {FilesOf(selection')} :
         \A i, j \in 1..Len(new) :
           (i < j /\ new[j] \in Elems(old))
           => /\ new[i] \in Elems(old)
              /\ IndexIn(old, new[i]) < IndexIn(old, new[j])]_vars

\* C21: with bottom <= top, fixup returns str(top) for a text above top,
\* str(bottom) for a text below bottom and the text itself otherwise, and
\* the result reads as a number from bottom to top.
C21_FixupClamps ==
    validator.bottom <= validator.top =>
        \A v \in FixupTexts :
            \A r \in {Fixup(v, validator.bottom, validator.top)} :
                /\ r = IF ParseInt(v) > validator.top THEN Str(validator.top)
                       ELSE IF ParseInt(v) < validator.bottom THEN Str(validator.bottom)
                       ELSE v
                /\ validator.bottom <= ParseInt(r)
                /\ ParseInt(r) <= validator.top

\* C21 witness: a text below bottom was fixed to str(bottom).
C21_Witness ==
    /\ validator.bottom <= validator.top
    /\ validator.value # <<>>
    /\ ParseInt(validator.value) < validator.bottom
    /\ validator.result = Str(validator.bottom)

\* C22: between clicks, a click on the checked button leaves no button of
\* the group checked, and a click on another button leaves that button
\* the only one checked.
C22_ClickOnCheckedUnchecks ==
    group.down = "none" =>
        \A b \in Buttons :
            GroupClick(GroupPress(group, b), b).checked
              = IF b \in group.checked THEN {} ELSE {b}

\* C22 witness: the button clicked last was checked before and no button is
\* checked now.
C22_Witness ==
    /\ group.down = "none"
    /\ group.clicked # "none"
    /\ group.checked = {}

\* C30: between clicks at most one button of the group is checked and the
\* group is exclusive.
C30_AtMostOneChecked ==
    group.down = "none" =>
        /\ Cardinality(group.checked) <= 1
        /\ group.exclusive

\* C30 witness: a click checked a button while another one was checked.
C30_Witness ==
    /\ group.down = "none"
    /\ group.clicked # "none"
    /\ group.checked = {group.clicked}
    /\ group.checked_button = group.clicked
    /\ group.exclusive
    /\ \E b \in Buttons \ {group.clicked} :
         GroupClick(GroupPress(group, b), b).checked = {b}

\* C23: closeEvent stores geometry and state and lets the window close when
\* _ok_to_continue answers True; when it answers False the event is
\* ignored, the window stays open and the settings stay as they were.
C23_CloseSavesWhenOk ==
    window.open =>
        /\ \A w \in {CloseEvent(window, TRUE)} :
              /\ w.settings = [geometry |-> window.geometry, state |-> window.docked]
              /\ w.accepted
              /\ ~w.open
        /\ \A w \in {CloseEvent(window, FALSE)} :
              /\ w.settings = window.settings
              /\ ~w.accepted
              /\ w.open

\* C23 witness: a close was refused while the settings held an older
\* geometry, and they still hold it.
C23_Witness ==
    /\ window.open
    /\ ~window.accepted
    /\ window.settings.geometry # "unset"
    /\ window.settings.geometry # window.geometry

\* C24: _add_dock_window with a non-empty title raises nothing, sets the
\* dock window's title, docks it in the area, puts its toggle-view action
\* in the View menu and returns the dock window.
C24_AddDockWindowWithTitle ==
    \A d \in Docks, title \in Titles \ {""}, area \in Areas :
        \A w \in {AddDockWindow(window, d, title, area)} :
            /\ w.raised = "none"
            /\ w.titles[d] = title
            /\ w.docked[d] = area
            /\ d \in w.view_menu
            /\ w.returned = d

\* C25: qtest_enter_text leaves the given text in the widget whatever it
\* held, and editingFinished comes once, last, with the whole text there.
C25_EnterTextReplacesText ==
    \A t \in EnterTexts :
        \A le \in {EnterText(line_edit, t)} :
            /\ le.text = t
            /\ le.log[Len(le.log)] = [signal |-> "editingFinished", text |-> t]
            /\ \A i \in 1..(Len(le.log) - 1) : le.log[i].signal # "editingFinished"

\* C25 witness: the call cleared an older text, typed two characters and
\* finished the editing.
C25_Witness ==
    /\ Len(line_edit.log) = 5
    /\ line_edit.log[1] = [signal |-> "textChanged", text |-> <<>>]
    /\ line_edit.log[5] = [signal |-> "editingFinished", text |-> line_edit.text]
    /\ Len(line_edit.text) = 2

\* C26: a block under assertSignalReceived passes exactly when the signal
\* was emitted inside it with the expected arguments at least once; a block
\* under assertSignalNotReceived passes exactly when it was not emitted.
C26_AssertionsReportEmissions ==
    receiver.phase = "done" =>
        /\ receiver.kind = "received" =>
              ((receiver.outcome = "pass")
                 <=> (IF receiver.arity = 0 THEN <<>> ELSE receiver.expected_args)
                       \in receiver.seen)
        /\ receiver.kind = "not_received" =>
              ((receiver.outcome = "pass") <=> receiver.seen = {})

\* C27: where _previous_path is not empty and differs from root_path, two
\* _go_back() calls in a row end with the root_path and the _previous_path
\* they started from.
C27_TwoBacksReturn ==
    (previous_path # <<>> /\ previous_path # root_path) =>
        \A s \in {GoBack(GoBack(St))} :
            /\ s.root_path = root_path
            /\ s.previous_path = previous_path

\* C28: in an operation that starts in _change_root_path every emission of
\* root_path_changed is a re-entrant call of it: there is at most one, and
\* it changes nothing.  In a double click the first emission is the call
\* itself and no other follows.
C28_ReentrantCallIsIdle ==
    /\ Len(emitted) <= 1
    /\ last_op # "double_clicked" => \A i \in 1..Len(emitted) : ~emitted[i].changed

====
